---- MODULE Spec2Model ----
(***************************************************************************)
(* ChainState (electrumx/server/chain_state.py): the history cache, its    *)
(* invalidation by _notify, and the offloaded jobs of get_history.         *)
(*                                                                         *)
(* The event loop is cooperative: a coroutine runs until it awaits.  The   *)
(* model gives one action to each stretch of code between two awaits, and  *)
(* one action to each removal of _notify's loop, which holds the loop      *)
(* (LoopFree) until its last removal.  Jobs run on worker threads and the  *)
(* block processor advances the store beside the event loop.               *)
(*                                                                         *)
(* Variables and record fields named h_... are history variables: the      *)
(* program keeps no such state; they record what happened so that the      *)
(* properties can speak about it.                                          *)
(***************************************************************************)
EXTENDS Integers, Sequences, FiniteSets

\* ---------------------------------------------------------------- bounds
\* Number of distinct hashX keys.
NumKeys == 3
\* Capacity of the history cache: pylru.lrucache(256) in the code, scaled down.
Capacity == 2
\* Number of get_history / get_utxos calls that can be in flight together.
MaxCalls == 2
\* Number of store changes (blocks and mempool refreshes) in a behaviour.
MaxEvents == 2
\* Notifications the notifier holds that are not yet delivered.
MaxQueue == 1
\* Greatest height of the store and of the daemon in the height queries.
MaxHeight == 4

\* The divisor of the history limit: env.max_send // 97.
PerRecord == 97

Keys == 1..NumKeys
CallIds == 1..MaxCalls
\* The value of env.max_send: a limit of two records.
MaxSends == {2 * PerRecord}

VARIABLES
    hc,           \* _history_cache: entries in recency order, most recent first
    calls,        \* the get_history / get_utxos coroutines, by call slot
    store,        \* store[k]: number of history records the store holds for k
    db_height,    \* height of the store
    queue,        \* notifications the notifier has not delivered yet, oldest first
    todo,         \* keys _notify still has to delete in its running loop
    notifying,    \* _notify has been called and has not returned
    max_send,     \* env.max_send
    shutdown,     \* shutdown() has been called
    events,       \* store changes so far (bounds the behaviour)
    h_lastHeight, \* height argument of the last delivered notification
    h_notified,   \* h_notified[k]: store[k] as of the last delivered block covering k
    h_pop,        \* keys installed in the cache and covered by no notification since
    h_before,     \* the cache as it was when the running _notify was called
    h_touched,    \* the touched argument of the running _notify
    daemon_height,\* what _daemon.cached_height() returns
    ret           \* what the last processing_new_block() or raw_header() did

vars == <<hc, calls, store, db_height, queue, todo, notifying, max_send, shutdown, events,
          h_lastHeight, h_notified, h_pop, h_before, h_touched, daemon_height, ret>>

Min(a, b) == IF a < b THEN a ELSE b

\* ------------------------------------------------------- pylru.lrucache
\* The keys of the cache: set(hc), and the table behind `hashX in hc`.
CacheKeys(c) == {c[i].key : i \in 1..Len(c)}

\* `hashX in hc`: a lookup in the table; the recency order is not touched.
Contains(c, k) == k \in CacheKeys(c)

IndexOf(c, k) == CHOOSE i \in 1..Len(c) : c[i].key = k

Entry(c, k) == c[IndexOf(c, k)]

Without(c, k) == SelectSeq(c, LAMBDA e : e.key # k)

\* hc[k]: the entry becomes the most recently used one.
LruGet(c, k) == <<Entry(c, k)>> \o Without(c, k)

\* The node a new key is put in: the tail of the list, whose key is dropped
\* when the cache is full.
LruMakeRoom(c) == IF Len(c) >= Capacity THEN SubSeq(c, 1, Capacity - 1) ELSE c

\* hc[k] = e: a key already there gets the new value and moves to the head;
\* a new key takes the tail node and becomes the head.
LruSet(c, k, e) ==
    IF Contains(c, k) THEN <<e>> \o Without(c, k)
    ELSE <<e>> \o LruMakeRoom(c)

\* del hc[k]
LruDel(c, k) == Without(c, k)

\* ------------------------------------------------------------ the store
\* The history of a key holding n records, oldest first (records are tx numbers).
History(n) == [i \in 1..n |-> i]

\* bp.get_history(hashX, limit): the first `limit` records.
ScanHistory(n, limit) == History(Min(n, limit))

\* Limit rounding up instead of down.
LimitCeil(ms) == (ms + PerRecord - 1) \div PerRecord

\* limit = self._env.max_send // 97
Limit(ms) == ms \div PerRecord

\* No synchronous query has been made yet.
NoRet == [op |-> "none", arg |-> 0, ok |-> TRUE, flag |-> FALSE, header |-> <<>>]

\* ------------------------------------------------------------ the calls
IdleCall ==
    [pc |-> "idle", key |-> 0, val |-> <<>>, err |-> FALSE,
     hit |-> FALSE, utxos |-> FALSE, h_inval |-> FALSE, h_ver |-> 0]

\* A call slot is free before its first call and after a call has returned.
Rest == {"idle", "done", "failed"}

\* LoopFree as it would be if _notify awaited inside its loop.
LoopFreeAwait == TRUE

\* The event loop runs one coroutine at a time: nothing else runs in it from
\* the call of _notify to its return, as _notify has no await.
LoopFree == ~notifying

Init ==
    /\ hc = <<>>
    /\ calls = [c \in CallIds |-> IdleCall]
    /\ store = [k \in Keys |-> 1]
    /\ db_height = 1
    /\ queue = <<>>
    /\ todo = {}
    /\ notifying = FALSE
    /\ max_send \in MaxSends
    /\ shutdown = FALSE
    /\ events = 0
    /\ h_lastHeight = 0
    /\ h_notified = [k \in Keys |-> 1]
    /\ h_pop = {}
    /\ h_before = <<>>
    /\ h_touched = {}
    /\ daemon_height = 1
    /\ ret = NoRet

env_unchanged == UNCHANGED <<store, db_height, queue, todo, notifying, max_send, shutdown,
                             events, h_lastHeight, h_notified, h_before, h_touched,
                             daemon_height, ret>>

\* GetHistoryHit reading the value without moving the entry.
GetHistoryHitNoRefresh(c, k) ==
    /\ LoopFree
    /\ calls[c].pc \in Rest
    /\ Contains(hc, k)
    /\ hc' = hc
    /\ calls' = [calls EXCEPT ![c] =
          [IdleCall EXCEPT !.pc = "done", !.val = Entry(hc, k).val, !.hit = TRUE]]
    /\ UNCHANGED h_pop
    /\ env_unchanged

\* get_history, lines 75-78 with hashX in hc: no await, the value is read back.
GetHistoryHit(c, k) ==
    /\ LoopFree
    /\ calls[c].pc \in Rest
    /\ Contains(hc, k)
    /\ hc' = LruGet(hc, k)
    /\ calls' = [calls EXCEPT ![c] =
          [IdleCall EXCEPT !.pc = "done", !.val = Entry(hc, k).val, !.hit = TRUE]]
    /\ UNCHANGED h_pop
    /\ env_unchanged

\* GetHistoryMiss without the membership test of line 76.
GetHistoryAlwaysMiss(c, k) ==
    /\ LoopFree
    /\ calls[c].pc \in Rest
    /\ calls' = [calls EXCEPT ![c] =
          [IdleCall EXCEPT !.pc = "pending", !.key = k]]
    /\ UNCHANGED <<hc, h_pop>>
    /\ env_unchanged

\* get_history, lines 75-77 with hashX not in hc: the job is handed to a thread
\* and the coroutine awaits it.
GetHistoryMiss(c, k) ==
    /\ LoopFree
    /\ calls[c].pc \in Rest
    /\ ~Contains(hc, k)
    /\ calls' = [calls EXCEPT ![c] =
          [IdleCall EXCEPT !.pc = "pending", !.key = k]]
    /\ UNCHANGED <<hc, h_pop>>
    /\ env_unchanged

\* What the job of a call returns when it reads the store now.
JobValue(c) == ScanHistory(store[calls[c].key], Limit(max_send))

\* The job storing its result in the cache from its worker thread.
JobRunInstalls(c) ==
    /\ calls[c].pc = "pending"
    /\ calls' = [calls EXCEPT ![c].pc = "ready", ![c].val = JobValue(c),
                              ![c].h_ver = store[calls[c].key]]
    /\ hc' = LruSet(hc, calls[c].key,
                    [key |-> calls[c].key, val |-> JobValue(c),
                     h_inval |-> calls[c].h_inval, h_ver |-> store[calls[c].key]])
    /\ UNCHANGED h_pop
    /\ env_unchanged

\* The job runs on its worker thread and reads the store.
JobRun(c) ==
    /\ calls[c].pc = "pending"
    /\ calls' = [calls EXCEPT ![c].pc = "ready", ![c].val = JobValue(c),
                              ![c].h_ver = store[calls[c].key]]
    /\ UNCHANGED <<hc, h_pop>>
    /\ env_unchanged

\* The job raises on its worker thread (a store error).
JobRaise(c) ==
    /\ calls[c].pc = "pending"
    /\ calls' = [calls EXCEPT ![c].pc = "ready", ![c].err = TRUE]
    /\ UNCHANGED <<hc, h_pop>>
    /\ env_unchanged

\* The entry line 77 stores for a call.
NewEntry(c) ==
    [key |-> calls[c].key, val |-> calls[c].val,
     h_inval |-> calls[c].h_inval, h_ver |-> calls[c].h_ver]

\* Line 77 keeping the entry the cache already holds for the key.
InstallKeepFirst(c) ==
    IF Contains(hc, calls[c].key) THEN LruGet(hc, calls[c].key)
    ELSE LruGet(LruSet(hc, calls[c].key, NewEntry(c)), calls[c].key)

\* Install into a plain dict instead of the lrucache of line 28: nothing is evicted.
InstallUnbounded(c) == <<NewEntry(c)>> \o Without(hc, calls[c].key)

\* Line 77, hc[hashX] = <result>, then line 78, return hc[hashX].
Install(c) == LruGet(LruSet(hc, calls[c].key, NewEntry(c)), calls[c].key)

\* GetHistoryResume dispatching the job again when a notification covering
\* the key was delivered while the job was pending.
GetHistoryResumeRetry(c) ==
    /\ LoopFree
    /\ calls[c].pc = "ready"
    /\ ~calls[c].err
    /\ IF calls[c].h_inval
       THEN /\ hc' = hc
            /\ calls' = [calls EXCEPT ![c] =
                  [IdleCall EXCEPT !.pc = "pending", !.key = calls[c].key]]
            /\ UNCHANGED h_pop
       ELSE /\ hc' = Install(c)
            /\ calls' = [calls EXCEPT ![c] =
                  [IdleCall EXCEPT !.pc = "done", !.val = Entry(hc', calls[c].key).val]]
            /\ h_pop' = h_pop \cup {calls[c].key}
    /\ env_unchanged

\* Line 78, return hc[hashX], as the call ends: the value of the entry, or a
\* KeyError when the cache has no entry for the key.
ReadBack(c, k) ==
    IF Contains(c, k) THEN [IdleCall EXCEPT !.pc = "done", !.val = Entry(c, k).val]
    ELSE [IdleCall EXCEPT !.pc = "failed"]

\* GetHistoryResume with an await between lines 77 and 78: the _notify of a
\* waiting notification runs before the value is read back.
GetHistoryResumeYield(c) ==
    /\ LoopFree
    /\ calls[c].pc = "ready"
    /\ ~calls[c].err
    /\ hc' = IF queue = <<>> THEN Install(c)
             ELSE SelectSeq(Install(c), LAMBDA e : e.key \notin Head(queue).touched)
    /\ calls' = [calls EXCEPT ![c] = ReadBack(hc', calls[c].key)]
    /\ h_pop' = h_pop \cup {calls[c].key}
    /\ env_unchanged

\* get_history resumes with the job's result: lines 77 and 78.
GetHistoryResume(c) ==
    /\ LoopFree
    /\ calls[c].pc = "ready"
    /\ ~calls[c].err
    /\ hc' = Install(c)
    /\ calls' = [calls EXCEPT ![c] = ReadBack(hc', calls[c].key)]
    /\ h_pop' = h_pop \cup {calls[c].key}
    /\ env_unchanged

\* CacheAfterRaise with the exception swallowed and an empty result stored.
CacheAfterRaiseSwallow(c) == LruSet(hc, calls[c].key, NewEntry(c))

\* The cache after the await of line 77 raised: the assignment did not happen.
CacheAfterRaise(c) == hc

\* get_history resumes with the job's exception, which leaves line 77.
GetHistoryRaise(c) ==
    /\ LoopFree
    /\ calls[c].pc = "ready"
    /\ calls[c].err
    /\ hc' = CacheAfterRaise(c)
    /\ calls' = [calls EXCEPT ![c] =
          [IdleCall EXCEPT !.pc = "failed"]]
    /\ UNCHANGED h_pop
    /\ env_unchanged

\* ------------------------------------------------------------ get_utxos
\* bp.get_utxos(hashX, limit=None): every record the store holds for the key.
ScanUtxos(n) == History(n)

\* get_utxos serving a key from the history cache when the cache holds it.
GetUtxosCached(c, k) ==
    /\ LoopFree
    /\ calls[c].pc \in Rest
    /\ IF Contains(hc, k)
       THEN /\ hc' = LruGet(hc, k)
            /\ calls' = [calls EXCEPT ![c] =
                  [IdleCall EXCEPT !.pc = "done", !.val = Entry(hc, k).val,
                                   !.utxos = TRUE]]
       ELSE /\ hc' = hc
            /\ calls' = [calls EXCEPT ![c] =
                  [IdleCall EXCEPT !.pc = "u_pending", !.key = k, !.utxos = TRUE]]
    /\ UNCHANGED h_pop
    /\ env_unchanged

\* get_utxos, lines 82-85: the job is handed to a thread and the coroutine
\* awaits it; the cache is not looked at.
GetUtxos(c, k) ==
    /\ LoopFree
    /\ calls[c].pc \in Rest
    /\ calls' = [calls EXCEPT ![c] =
          [IdleCall EXCEPT !.pc = "u_pending", !.key = k, !.utxos = TRUE]]
    /\ UNCHANGED <<hc, h_pop>>
    /\ env_unchanged

\* The job of get_utxos runs on its worker thread and reads the store (line 83).
UtxosJobRun(c) ==
    /\ calls[c].pc = "u_pending"
    /\ calls' = [calls EXCEPT ![c].pc = "u_ready",
                              ![c].val = ScanUtxos(store[calls[c].key]),
                              ![c].h_ver = store[calls[c].key]]
    /\ UNCHANGED <<hc, h_pop>>
    /\ env_unchanged

\* The job of get_utxos raises on its worker thread.
UtxosJobRaise(c) ==
    /\ calls[c].pc = "u_pending"
    /\ calls' = [calls EXCEPT ![c].pc = "u_ready", ![c].err = TRUE]
    /\ UNCHANGED <<hc, h_pop>>
    /\ env_unchanged

\* get_utxos resumes with the job's result and returns it (line 85).
GetUtxosResume(c) ==
    /\ LoopFree
    /\ calls[c].pc = "u_ready"
    /\ ~calls[c].err
    /\ calls' = [calls EXCEPT ![c] =
          [IdleCall EXCEPT !.pc = "done", !.val = calls[c].val, !.utxos = TRUE]]
    /\ UNCHANGED <<hc, h_pop>>
    /\ env_unchanged

\* get_utxos resumes with the job's exception, which leaves line 85.
GetUtxosRaise(c) ==
    /\ LoopFree
    /\ calls[c].pc = "u_ready"
    /\ calls[c].err
    /\ calls' = [calls EXCEPT ![c] =
          [IdleCall EXCEPT !.pc = "failed", !.utxos = TRUE]]
    /\ UNCHANGED <<hc, h_pop>>
    /\ env_unchanged

\* ------------------------------------------- the store and the notifier
\* The touched sets of the notifications: key 1 alone, or keys 1 and 2.  The
\* other keys are never touched.
Touched == {{1}, {1, 2}}

\* The block processor adds a block: the history of every touched key grows.
AdvanceBlock(t) ==
    /\ ~shutdown
    /\ events < MaxEvents
    /\ Len(queue) < MaxQueue
    /\ events' = events + 1
    /\ store' = [k \in Keys |-> IF k \in t THEN store[k] + 1 ELSE store[k]]
    /\ db_height' = db_height + 1
    /\ queue' = Append(queue, [height |-> db_height + 1, touched |-> t, block |-> TRUE])
    /\ UNCHANGED <<hc, calls, todo, notifying, max_send, shutdown,
                   h_lastHeight, h_notified, h_pop, h_before, h_touched, daemon_height, ret>>

\* The mempool is refreshed: keys are touched at the height of the store.
RefreshMempool(t) ==
    /\ ~shutdown
    /\ events < MaxEvents
    /\ Len(queue) < MaxQueue
    /\ events' = events + 1
    /\ queue' = Append(queue, [height |-> db_height, touched |-> t, block |-> FALSE])
    /\ UNCHANGED <<hc, calls, store, db_height, todo, notifying, max_send, shutdown,
                   h_lastHeight, h_notified, h_pop, h_before, h_touched, daemon_height, ret>>

\* The mempool is refreshed, any number of times in a behaviour.
TouchMempool(t) ==
    /\ ~shutdown
    /\ Len(queue) < MaxQueue
    /\ queue' = Append(queue, [height |-> db_height, touched |-> t, block |-> FALSE])
    /\ UNCHANGED <<hc, calls, store, db_height, todo, notifying, max_send, shutdown, events,
                   h_lastHeight, h_notified, h_pop, h_before, h_touched, daemon_height, ret>>

\* _notify deleting every key of the cache.
NotifyKeysAll(n) == CacheKeys(hc)

\* _notify, line 45: set(hc).intersection(touched), the keys the loop deletes.
NotifyKeys(n) == CacheKeys(hc) \cap n.touched

\* The notifier calls _notify(height, touched) with its oldest notification.
NotifyBegin ==
    /\ LoopFree
    /\ queue # <<>>
    /\ LET n == Head(queue) IN
         /\ todo' = NotifyKeys(n)
         /\ h_lastHeight' = n.height
         /\ calls' = [c \in CallIds |->
               IF calls[c].pc \in {"pending", "ready"} /\ calls[c].key \in n.touched
               THEN [calls[c] EXCEPT !.h_inval = TRUE] ELSE calls[c]]
         /\ h_notified' = [k \in Keys |->
               IF n.block /\ k \in n.touched THEN h_notified[k] + 1 ELSE h_notified[k]]
         /\ h_pop' = h_pop \ n.touched
         /\ h_touched' = n.touched
    /\ notifying' = TRUE
    /\ h_before' = hc
    /\ queue' = Tail(queue)
    /\ UNCHANGED <<hc, store, db_height, max_send, shutdown, events, daemon_height, ret>>

\* _notify, line 46: del hc[hashX] for one key of the loop.
NotifyDel(k) ==
    /\ k \in todo
    /\ hc' = LruDel(hc, k)
    /\ todo' = todo \ {k}
    /\ UNCHANGED <<calls, store, db_height, queue, notifying, max_send, shutdown, events,
                   h_lastHeight, h_notified, h_pop, h_before, h_touched, daemon_height, ret>>

\* _notify returns when its loop has no key left: the event loop is free again.
NotifyReturn ==
    /\ notifying
    /\ todo = {}
    /\ notifying' = FALSE
    /\ h_before' = <<>>
    /\ h_touched' = {}
    /\ UNCHANGED <<hc, calls, store, db_height, queue, todo, max_send, shutdown, events,
                   h_lastHeight, h_notified, h_pop, daemon_height, ret>>

\* shutdown(): awaits the block processor's shutdown; the store stops advancing.
Shutdown ==
    /\ LoopFree
    /\ ~shutdown
    /\ shutdown' = TRUE
    /\ UNCHANGED <<hc, calls, store, db_height, queue, todo, notifying, max_send, events,
                   h_lastHeight, h_notified, h_pop, h_before, h_touched, daemon_height, ret>>

\* The behaviours without shutdown().  shutdown() changes nothing the other
\* actions read except that the store stops advancing, so every behaviour with
\* it is, on the other variables, one of these.
Next ==
    \/ \E c \in CallIds, k \in Keys : GetHistoryHit(c, k)
    \/ \E c \in CallIds, k \in Keys : GetHistoryMiss(c, k)
    \/ \E c \in CallIds : JobRun(c)
    \/ \E c \in CallIds : JobRaise(c)
    \/ \E c \in CallIds : GetHistoryResume(c)
    \/ \E c \in CallIds : GetHistoryRaise(c)
    \/ \E t \in Touched : AdvanceBlock(t)
    \/ \E t \in Touched : RefreshMempool(t)
    \/ NotifyBegin
    \/ \E k \in Keys : NotifyDel(k)
    \/ NotifyReturn

Spec == Init /\ [][Next]_vars

\* The behaviours with shutdown().
NextShutdown ==
    \/ \E c \in CallIds, k \in Keys : GetHistoryHit(c, k)
    \/ \E c \in CallIds, k \in Keys : GetHistoryMiss(c, k)
    \/ \E c \in CallIds : JobRun(c)
    \/ \E c \in CallIds : JobRaise(c)
    \/ \E c \in CallIds : GetHistoryResume(c)
    \/ \E c \in CallIds : GetHistoryRaise(c)
    \/ \E t \in Touched : AdvanceBlock(t)
    \/ \E t \in Touched : RefreshMempool(t)
    \/ NotifyBegin
    \/ \E k \in Keys : NotifyDel(k)
    \/ NotifyReturn
    \/ Shutdown

SpecShutdown == Init /\ [][NextShutdown]_vars

\* The behaviours in which no call is made once shutdown() has been called:
\* a call that resumes after it dispatched its job before it.
NextStop ==
    \/ \E c \in CallIds, k \in Keys : ~shutdown /\ GetHistoryHit(c, k)
    \/ \E c \in CallIds, k \in Keys : ~shutdown /\ GetHistoryMiss(c, k)
    \/ \E c \in CallIds : JobRun(c)
    \/ \E c \in CallIds : JobRaise(c)
    \/ \E c \in CallIds : GetHistoryResume(c)
    \/ \E c \in CallIds : GetHistoryRaise(c)
    \/ \E t \in Touched : AdvanceBlock(t)
    \/ \E t \in Touched : RefreshMempool(t)
    \/ NotifyBegin
    \/ \E k \in Keys : NotifyDel(k)
    \/ NotifyReturn
    \/ Shutdown

SpecStop == Init /\ [][NextStop]_vars

\* ------------------------------------------------- the limit of a history
\* Values of env.max_send around the multiples of the divisor.
LimitSends == {m * PerRecord + d : m \in 0..3, d \in {0, 1, PerRecord - 1}}

\* Key k holds k records, and the store does not change.
InitLimit ==
    /\ hc = <<>>
    /\ calls = [c \in CallIds |-> IdleCall]
    /\ store = [k \in Keys |-> k]
    /\ db_height = 1
    /\ queue = <<>>
    /\ todo = {}
    /\ notifying = FALSE
    /\ max_send \in LimitSends
    /\ shutdown = FALSE
    /\ events = 0
    /\ h_lastHeight = 0
    /\ h_notified = [k \in Keys |-> k]
    /\ h_pop = {}
    /\ h_before = <<>>
    /\ h_touched = {}
    /\ daemon_height = 1
    /\ ret = NoRet

NextLimit ==
    \/ \E c \in CallIds, k \in Keys : GetHistoryHit(c, k)
    \/ \E c \in CallIds, k \in Keys : GetHistoryMiss(c, k)
    \/ \E c \in CallIds : JobRun(c)
    \/ \E c \in CallIds : GetHistoryResume(c)

SpecLimit == InitLimit /\ [][NextLimit]_vars

\* ------------------------------------------------ calls under fairness
\* The keys the calls under fairness ask for: key 1, which every notification
\* touches, and key 2, which some touch.
FairKeys == {1, 2}

\* The calls of both kinds beside notifications without end; the store does
\* not change.
NextFair ==
    \/ \E c \in CallIds, k \in FairKeys : GetHistoryHit(c, k)
    \/ \E c \in CallIds, k \in FairKeys : GetHistoryMiss(c, k)
    \/ \E c \in CallIds : JobRun(c)
    \/ \E c \in CallIds : JobRaise(c)
    \/ \E c \in CallIds : GetHistoryResume(c)
    \/ \E c \in CallIds : GetHistoryRaise(c)
    \/ \E c \in CallIds, k \in FairKeys : GetUtxos(c, k)
    \/ \E c \in CallIds : UtxosJobRun(c)
    \/ \E c \in CallIds : UtxosJobRaise(c)
    \/ \E c \in CallIds : GetUtxosResume(c)
    \/ \E c \in CallIds : GetUtxosRaise(c)
    \/ \E t \in Touched : TouchMempool(t)
    \/ NotifyBegin
    \/ \E k \in Keys : NotifyDel(k)
    \/ NotifyReturn

\* The executor gives every dispatched job a thread, on which it runs.
ExecutorRuns(c) == JobRun(c) \/ UtxosJobRun(c)

\* The event loop resumes the coroutine whose awaited job has ended.
LoopResumes(c) ==
    GetHistoryResume(c) \/ GetHistoryRaise(c) \/ GetUtxosResume(c) \/ GetUtxosRaise(c)

\* _notify, having no await, runs on to its return.
NotifyRuns == (\E k \in Keys : NotifyDel(k)) \/ NotifyReturn

\* The executor is fair to its jobs; the event loop runs its ready callbacks
\* in the order they became ready, so that a coroutine that is ready again
\* and again is resumed.
Fairness ==
    /\ \A c \in CallIds : WF_vars(ExecutorRuns(c))
    /\ \A c \in CallIds : SF_vars(LoopResumes(c))
    /\ WF_vars(NotifyRuns)

SpecFair == Init /\ [][NextFair]_vars /\ Fairness

\* ------------------------------------------- get_utxos beside the cache
\* Key k holds k records, the limit of a history is two records, and the
\* store does not change.
InitUtxos ==
    /\ hc = <<>>
    /\ calls = [c \in CallIds |-> IdleCall]
    /\ store = [k \in Keys |-> k]
    /\ db_height = 1
    /\ queue = <<>>
    /\ todo = {}
    /\ notifying = FALSE
    /\ max_send \in MaxSends
    /\ shutdown = FALSE
    /\ events = 0
    /\ h_lastHeight = 0
    /\ h_notified = [k \in Keys |-> k]
    /\ h_pop = {}
    /\ h_before = <<>>
    /\ h_touched = {}
    /\ daemon_height = 1
    /\ ret = NoRet

NextUtxos ==
    \/ \E c \in CallIds, k \in Keys : GetHistoryHit(c, k)
    \/ \E c \in CallIds, k \in Keys : GetHistoryMiss(c, k)
    \/ \E c \in CallIds : JobRun(c)
    \/ \E c \in CallIds : GetHistoryResume(c)
    \/ \E c \in CallIds, k \in Keys : GetUtxos(c, k)
    \/ \E c \in CallIds : UtxosJobRun(c)
    \/ \E c \in CallIds : UtxosJobRaise(c)
    \/ \E c \in CallIds : GetUtxosResume(c)
    \/ \E c \in CallIds : GetUtxosRaise(c)

SpecUtxos == InitUtxos /\ [][NextUtxos]_vars

\* ------------------------------------------------ the synchronous queries
Heights == 0..MaxHeight

\* processing_new_block with the two heights compared for inequality.
ProcessingNewBlockNotEqual == daemon_height # db_height

\* processing_new_block, line 92.
ProcessingNewBlockValue == daemon_height > db_height

\* bp.read_headers(height, count): the headers from a height on, `count` of
\* them at most, and how many they are.  The store holds the headers of the
\* heights 0..db_height; a header is written as its height.
ReadHeaders(height, count) ==
    LET n == Min(count, IF height > db_height THEN 0 ELSE db_height + 1 - height)
    IN  [header |-> [i \in 1..n |-> height + i - 1], n |-> n]

\* raw_header without the test of line 97.
RawHeaderUnchecked(height) ==
    [op |-> "raw_header", arg |-> height, ok |-> TRUE, flag |-> FALSE,
     header |-> ReadHeaders(height, 1).header]

\* raw_header, lines 96-99: IndexError unless exactly one header came back.
RawHeaderValue(height) ==
    LET r == ReadHeaders(height, 1)
    IN  IF r.n # 1
        THEN [op |-> "raw_header", arg |-> height, ok |-> FALSE, flag |-> FALSE,
              header |-> <<>>]
        ELSE [op |-> "raw_header", arg |-> height, ok |-> TRUE, flag |-> FALSE,
              header |-> r.header]

sync_unchanged == UNCHANGED <<hc, calls, store, db_height, queue, todo, notifying, max_send,
                              shutdown, events, h_lastHeight, h_notified, h_pop,
                              h_before, h_touched, daemon_height>>

\* processing_new_block(), lines 90-92.
ProcessingNewBlock ==
    /\ ret' = [NoRet EXCEPT !.op = "processing_new_block", !.flag = ProcessingNewBlockValue]
    /\ sync_unchanged

\* raw_header(height), lines 94-99.
RawHeader(height) ==
    /\ ret' = RawHeaderValue(height)
    /\ sync_unchanged

\* The store and the daemon at any two heights; they do not move.
InitSync ==
    /\ hc = <<>>
    /\ calls = [c \in CallIds |-> IdleCall]
    /\ store = [k \in Keys |-> 1]
    /\ db_height \in Heights
    /\ queue = <<>>
    /\ todo = {}
    /\ notifying = FALSE
    /\ max_send \in MaxSends
    /\ shutdown = FALSE
    /\ events = 0
    /\ h_lastHeight = 0
    /\ h_notified = [k \in Keys |-> 1]
    /\ h_pop = {}
    /\ h_before = <<>>
    /\ h_touched = {}
    /\ daemon_height \in Heights
    /\ ret = NoRet

\* One height more than the store can hold is asked for.
NextSync ==
    \/ ProcessingNewBlock
    \/ \E h \in 0..(MaxHeight + 1) : RawHeader(h)

SpecSync == InitSync /\ [][NextSync]_vars

\* ------------------------------------------------------------ properties
\* Call c resumes with its job's result in this step (lines 77-78).
Resumes(c) == calls[c].pc = "ready" /\ ~calls[c].err /\ calls'[c].pc = "done"

\* Call c dispatches a job for key k in this step (the miss of line 76).
Dispatches(c, k) ==
    calls[c].pc \in Rest /\ calls'[c].pc = "pending" /\ calls'[c].key = k

\* Call c returns from a cache hit in this step.
Hits(c) ==
    calls[c].pc \in Rest /\ calls'[c].pc = "done" /\ calls'[c].hit /\ calls'[c] # calls[c]

\* A notification is delivered to _notify in this step.
Delivers == Len(queue') < Len(queue)

\* C1: no entry of the cache was computed by a job that a notification covering
\* its key overtook: no notification covering the key was delivered after the
\* job was dispatched, the entry being there still.
C1_NoOvertakenEntry == \A i \in 1..Len(hc) : ~hc[i].h_inval

\* C2: when a notification covering K was delivered while the job of a
\* get_history(K) was pending, the call returns the job's result and leaves no
\* entry for K in the cache.
C2_OvertakenResultNotCached ==
    [][\A c \in CallIds :
          (Resumes(c) /\ calls[c].h_inval)
              => (calls'[c].val = calls[c].val /\ calls[c].key \notin CacheKeys(hc'))]_vars

\* C3: a cache hit never returns a value read from a store older than the one
\* a delivered notification covering the key announced.
C3_NoStaleHit ==
    [][\A c \in CallIds :
          Hits(c) => hc'[1].h_ver >= h_notified[hc'[1].key]]_vars

\* C4 as claimed: no job is dispatched for a key that was installed and that no
\* notification has covered since.
C4_NoRedispatch ==
    [][\A c \in CallIds, k \in Keys : k \in h_pop => ~Dispatches(c, k)]_vars

\* C4 amended: no job is dispatched for a key that was installed, that no
\* notification has covered since and that is still in the cache (no overflow
\* has evicted it); a call that finds a key in the cache returns the cached
\* value at once.
C4_NoRedispatchWhileCached ==
    [][/\ \A c \in CallIds, k \in Keys :
             (k \in h_pop /\ k \in CacheKeys(hc)) => ~Dispatches(c, k)
       /\ \A c \in CallIds :
             Hits(c) => \E i \in 1..Len(hc) :
                           /\ hc[i].val = calls'[c].val
                           /\ hc'[1] = hc[i]]_vars

\* C4: a call has returned from a hit on a key installed and not covered since.
C4_Witness ==
    \E c \in CallIds :
        /\ calls[c].pc = "done" /\ calls[c].hit
        /\ hc # <<>> /\ hc[1].key \in h_pop /\ hc[1].val = calls[c].val

\* C5: the cache never holds more than Capacity entries, nor a key twice; an
\* install puts its key at the head, and an install into a full cache drops
\* the entry at the tail of the recency order, the least recently used one,
\* and keeps the others in their order.
C5_BoundedLru ==
    /\ [](Len(hc) <= Capacity /\ Cardinality(CacheKeys(hc)) = Len(hc))
    /\ [][\A c \in CallIds :
             Resumes(c) =>
                 /\ hc'[1].key = calls[c].key
                 /\ (calls[c].key \notin CacheKeys(hc) /\ Len(hc) = Capacity)
                        => Tail(hc') = SubSeq(hc, 1, Capacity - 1)]_vars

\* C5: the cache is full and a key installed before, which no notification
\* has covered, is no longer in it: an overflow evicted it.
C5_Witness ==
    /\ Len(hc) = Capacity
    /\ \E k \in h_pop : k \notin CacheKeys(hc)

\* C6: when the job of a call raised, the call ends as failed and the cache is
\* as it was.
C6_FailurePropagates ==
    [][\A c \in CallIds :
          (calls[c].pc = "ready" /\ calls[c].err /\ calls'[c].pc # "ready")
              => (calls'[c].pc = "failed" /\ hc' = hc)]_vars

\* C6: a call has failed beside a cache that holds entries.
C6_Witness == \E c \in CallIds : calls[c].pc = "failed" /\ hc # <<>>

\* C7: a history holds at most max_send // 97 records, and that many when the
\* store held more for the key: as the job returns it, as the cache keeps it
\* and as the call returns it.
C7_HistoryLimit ==
    LET L == max_send \div PerRecord
        Ok(v, n) == Len(v) <= L /\ (n > L => Len(v) = L)
    IN  /\ \A c \in CallIds :
              (calls[c].pc = "ready" /\ ~calls[c].err) => Ok(calls[c].val, calls[c].h_ver)
        /\ \A i \in 1..Len(hc) : Ok(hc[i].val, hc[i].h_ver)
        /\ \A c \in CallIds : calls[c].pc = "done" => Len(calls[c].val) <= L

\* C7: a call has returned a history cut to a limit of at least one record.
C7_Witness ==
    \E c \in CallIds :
        /\ calls[c].pc = "done"
        /\ hc # <<>> /\ hc[1].val = calls[c].val
        /\ Len(hc[1].val) = max_send \div PerRecord
        /\ Len(hc[1].val) > 0
        /\ hc[1].h_ver > Len(hc[1].val)

\* C8: while _notify is in its loop the cache changes only by the removal of
\* one of the loop's keys, no call starts, resumes or returns, and no other
\* notification is delivered; the notifications are delivered oldest first.
C8_NotifyInOrder ==
    [][/\ todo # {} =>
             /\ hc' # hc => \E k \in todo :
                               /\ hc' = SelectSeq(hc, LAMBDA e : e.key # k)
                               /\ todo' = todo \ {k}
             /\ \A c \in CallIds : calls'[c].pc \in Rest => calls'[c] = calls[c]
             /\ \A c \in CallIds : calls[c].pc \in Rest => calls'[c] = calls[c]
             /\ ~Delivers
       /\ Delivers => (queue' = Tail(queue) /\ todo' = CacheKeys(hc) \cap Head(queue).touched)]_vars

\* C8: _notify is in its loop with two keys to remove while a call's result
\* waits to be installed.
C8_Witness ==
    /\ Cardinality(todo) = 2
    /\ \E c \in CallIds : calls[c].pc = "ready" /\ ~calls[c].err

\* C9: the number that comes with a delivered notification, its height, is
\* greater than the number of the notification delivered before it.
C9_StrictlyIncreasing == [][Delivers => h_lastHeight' > h_lastHeight]_vars

\* C10: once shutdown() has been called no call is started: none dispatches a
\* job, none is served from the cache.
C10_NoQueryAfterShutdown ==
    [][shutdown => \A c \in CallIds : calls[c].pc \in Rest => calls'[c] = calls[c]]_vars

\* C11: processing_new_block() returns true when the daemon's height is above
\* the store's, false when the two are equal, and false, with no error, when
\* the store's is above the daemon's.
C11_ProcessingNewBlock ==
    ret.op = "processing_new_block" =>
        /\ ret.ok
        /\ daemon_height > db_height => ret.flag
        /\ daemon_height = db_height => ~ret.flag
        /\ daemon_height < db_height => ~ret.flag

\* C11: processing_new_block() has returned false with the store above the daemon.
C11_Witness ==
    ret.op = "processing_new_block" /\ ~ret.flag /\ db_height > daemon_height

\* C12: raw_header(height) returns the header of that height when the store
\* returned the one header asked for, and fails, returning no header, when
\* the store returned fewer.
C12_RawHeader ==
    ret.op = "raw_header" =>
        LET r == ReadHeaders(ret.arg, 1)
        IN  /\ r.n = 1 => (ret.ok /\ ret.header = <<ret.arg>>)
            /\ r.n < 1 => (~ret.ok /\ ret.header = <<>>)

\* C12: raw_header has failed for the height just above the store's.
C12_Witness ==
    ret.op = "raw_header" /\ ~ret.ok /\ ret.arg = db_height + 1

\* C13: a step of a get_utxos call, whichever, leaves the cache as it is,
\* contents and recency order; a get_utxos call that starts dispatches a job,
\* whatever the cache holds; the job returns every record the store holds for
\* the key, and the call returns what its job returned.
C13_UtxosBypassCache ==
    [][\A c \in CallIds :
          /\ (calls'[c].utxos /\ calls'[c] # calls[c]) => hc' = hc
          /\ (calls[c].pc \in Rest /\ calls'[c].utxos /\ calls'[c] # calls[c])
                 => calls'[c].pc = "u_pending"
          /\ (calls[c].pc = "u_pending" /\ calls'[c].pc = "u_ready" /\ ~calls'[c].err)
                 => calls'[c].val = History(store[calls[c].key])
          /\ (calls[c].pc = "u_ready" /\ ~calls[c].err /\ calls'[c] # calls[c])
                 => (calls'[c].pc = "done" /\ calls'[c].val = calls[c].val)]_vars

\* C13: a get_utxos call has returned the three records of a key whose entry
\* in the cache holds a history of two, and the entry is not the most
\* recently used one.
C13_Witness ==
    \E c \in CallIds :
        /\ calls[c].pc = "done" /\ calls[c].utxos
        /\ Len(calls[c].val) = 3
        /\ \E i \in 2..Len(hc) : hc[i].h_ver = 3 /\ Len(hc[i].val) = 2

\* C14: when _notify has done its loop and is about to return, no key of its
\* touched argument is in the cache, and the cache is the cache as it was at
\* the call without the entries of those keys: the other entries are there
\* with their values, in the order they had.
C14_NotifyRemovesTouchedOnly ==
    (notifying /\ todo = {}) =>
        /\ CacheKeys(hc) \cap h_touched = {}
        /\ hc = SelectSeq(h_before, LAMBDA e : e.key \notin h_touched)

\* C14: _notify has done its loop on a cache that held an entry of a touched
\* key before an entry of another key, which is still there.
C14_Witness ==
    /\ notifying /\ todo = {}
    /\ Len(h_before) >= 2
    /\ h_before[1].key \in h_touched
    /\ h_before[2].key \notin h_touched
    /\ hc = <<h_before[2]>>

\* C15: a hit moves the entry it reads to the head of the recency order and
\* keeps the others in their order; an install puts its entry at the head,
\* before the entries that stay, and what an install into a full cache drops
\* is the tail; a call that only tests membership and dispatches, and the
\* delivery of a notification with its scan of the keys, leave the order as
\* it is.
C15_RecencyOrder ==
    [][/\ \A c \in CallIds :
             Hits(c) => \E i \in 1..Len(hc) :
                           /\ calls'[c].val = hc[i].val
                           /\ hc' = <<hc[i]>> \o SelectSeq(hc, LAMBDA e : e.key # hc[i].key)
       /\ \A c \in CallIds :
             Resumes(c) =>
                 /\ hc'[1].key = calls[c].key
                 /\ Tail(hc') =
                       IF calls[c].key \in CacheKeys(hc)
                       THEN SelectSeq(hc, LAMBDA e : e.key # calls[c].key)
                       ELSE IF Len(hc) >= Capacity THEN SubSeq(hc, 1, Capacity - 1)
                       ELSE hc
       /\ \A c \in CallIds, k \in Keys : Dispatches(c, k) => hc' = hc
       /\ Delivers => hc' = hc]_vars

\* C15: key 1, the one key with a history of two records, was hit after key 2
\* was installed, and the install of the third key has evicted key 2 and kept
\* key 1.
C15_Witness ==
    /\ store[2] = 1 /\ store[3] = 1
    /\ Len(hc) = 2 /\ hc[2].key = 1 /\ Len(hc[2].val) = 2
    /\ \E c \in CallIds : calls[c].pc = "done" /\ calls[c].hit /\ calls[c].val = hc[2].val
    /\ 2 \in h_pop \ CacheKeys(hc)

\* C16: the step of a job on its worker thread leaves the cache as it is, and
\* what the job returns is read from the store alone; every change of the
\* cache is made in the event loop, by the one coroutine that holds it:
\* while _notify runs, by the removal of one of its keys and by nothing
\* else, and otherwise by the hit or the install of one call, the other calls
\* standing still.
C16_CacheOnlyInEventLoop ==
    [][/\ \A c \in CallIds :
             (calls[c].pc = "pending" /\ calls'[c].pc = "ready")
                 => /\ hc' = hc
                    /\ ~calls'[c].err
                          => calls'[c].val = ScanHistory(store[calls[c].key],
                                                         max_send \div PerRecord)
       /\ hc' # hc =>
             \/ /\ notifying
                /\ calls' = calls
                /\ \E k \in todo : hc' = SelectSeq(hc, LAMBDA e : e.key # k)
             \/ /\ ~notifying
                /\ \E c \in CallIds :
                      /\ \A d \in CallIds \ {c} : calls'[d] = calls[d]
                      /\ calls'[c].pc = "done"
                      /\ \/ /\ calls[c].pc \in Rest
                            /\ calls'[c].hit
                            /\ \E i \in 1..Len(hc) :
                                  /\ calls'[c].val = hc[i].val
                                  /\ hc' = <<hc[i]>> \o
                                             SelectSeq(hc, LAMBDA e : e.key # hc[i].key)
                         \/ /\ Resumes(c)
                            /\ hc'[1].key = calls[c].key
                            /\ hc'[1].val = calls[c].val]_vars

\* C16: a job has run on its thread while _notify was in its loop: it read
\* a store that holds a block appended since _notify was called.
C16_Witness ==
    /\ notifying /\ todo # {} /\ queue # <<>>
    /\ \E c \in CallIds :
          /\ calls[c].pc = "ready" /\ ~calls[c].err
          /\ calls[c].h_ver > h_notified[calls[c].key]

\* Call c has dispatched a job and has not returned.
InFlight(c) == calls[c].pc \in {"pending", "ready", "u_pending", "u_ready"}

\* C17: a call that has dispatched a job keeps its key and moves only from
\* pending to ready, when its job ends, and from ready to its return, with
\* the value its job returned or with its failure: it is not cancelled and
\* not dispatched again, whatever notifications are delivered meanwhile; and
\* a call that has dispatched a job returns in the end.
C17_CallsReturn ==
    /\ [][\A c \in CallIds :
             /\ calls[c].pc = "pending" => calls'[c].pc \in {"pending", "ready"}
             /\ calls[c].pc = "u_pending" => calls'[c].pc \in {"u_pending", "u_ready"}
             /\ (InFlight(c) /\ calls'[c].pc \notin Rest)
                    => /\ calls'[c].key = calls[c].key
                       /\ calls'[c].pc = calls[c].pc
                             => (calls'[c].val = calls[c].val /\ calls'[c].err = calls[c].err)
             /\ (calls[c].pc \in {"ready", "u_ready"} /\ calls'[c].pc # calls[c].pc)
                    => IF calls[c].err
                       THEN calls'[c].pc = "failed"
                       ELSE calls'[c].pc = "done" /\ calls'[c].val = calls[c].val]_vars
    /\ \A c \in CallIds : InFlight(c) ~> (calls[c].pc \in {"done", "failed"})

\* C17: a call has returned the result of a job that a notification covering
\* its key overtook, and _notify runs again.
C17_Witness ==
    /\ notifying
    /\ \E c \in CallIds :
          /\ calls[c].pc = "done" /\ ~calls[c].hit /\ ~calls[c].utxos
          /\ hc # <<>> /\ hc[1].h_inval

\* C18: a call that resumes with its job's result once shutdown() has been
\* called leaves the cache as it is: the result is not installed.
C18_NoInstallAfterShutdown ==
    [][\A c \in CallIds : (shutdown /\ Resumes(c)) => hc' = hc]_vars

\* C19: a call fails only with the failure of its job, never for a key that
\* is missing when it is read: a call that resumes with its job's result
\* finds the entry it stored and returns the value its own job produced, and
\* a call served from the cache returns the value of an entry that was there.
C19_NoMissingKey ==
    [][\A c \in CallIds :
          /\ (calls'[c].pc = "failed" /\ calls'[c] # calls[c])
                 => (calls[c].pc = "ready" /\ calls[c].err)
          /\ (calls[c].pc = "ready" /\ ~calls[c].err /\ calls'[c].pc # "ready")
                 => /\ calls'[c].pc = "done"
                    /\ calls'[c].val = calls[c].val
                    /\ \E i \in 1..Len(hc') :
                          hc'[i].key = calls[c].key /\ hc'[i].val = calls[c].val
          /\ Hits(c) => \E i \in 1..Len(hc) : hc[i].val = calls'[c].val]_vars

\* C19: a call has returned the value it stored for a key while a
\* notification that touches the key waits to be delivered.
C19_Witness ==
    /\ queue # <<>>
    /\ hc # <<>> /\ hc[1].key \in Head(queue).touched
    /\ \E c \in CallIds :
          /\ calls[c].pc = "done" /\ ~calls[c].hit /\ ~calls[c].utxos
          /\ calls[c].val = hc[1].val

\* C20: a call dispatches its own job although another call waits for the
\* same key; the job of a call and the resumption of a call change no other
\* call; a call that resumes returns the value of its own job, and the entry
\* of the key is then the one made of that job's result, whatever entry
\* another call had stored.
C20_MissesNotCoalesced ==
    [][\A c \in CallIds :
          /\ \A k \in Keys :
                Dispatches(c, k) =>
                    /\ calls'[c].val = <<>> /\ calls'[c].h_ver = 0
                    /\ \A d \in CallIds \ {c} : calls'[d] = calls[d]
          /\ (calls[c].pc = "pending" /\ calls'[c].pc = "ready")
                 => \A d \in CallIds \ {c} : calls'[d] = calls[d]
          /\ Resumes(c) =>
                 /\ \A d \in CallIds \ {c} : calls'[d] = calls[d]
                 /\ calls'[c].val = calls[c].val
                 /\ hc'[1] = [key |-> calls[c].key, val |-> calls[c].val,
                              h_inval |-> calls[c].h_inval, h_ver |-> calls[c].h_ver]
                 /\ \A i \in 2..Len(hc') : hc'[i].key # calls[c].key]_vars

\* C20: two calls missed key 1 together; the call whose job read the store
\* of two records has returned them, and the entry of the key is the result
\* of the other job, which read the store of one record and resumed last.
C20_Witness ==
    /\ store[1] = 2 /\ store[2] = 1 /\ store[3] = 1
    /\ hc # <<>> /\ hc[1].key = 1 /\ hc[1].h_ver = 1
    /\ \E c, d \in CallIds :
          /\ c # d
          /\ calls[c].pc = "done" /\ ~calls[c].hit /\ Len(calls[c].val) = 2
          /\ calls[d].pc = "done" /\ ~calls[d].hit /\ calls[d].val = hc[1].val

====
